---- MODULE Spec2Model ----
(***************************************************************************)
(* Model of AzureRealtimeWebSocketService (the server-VAD variant, the     *)
(* second class of src/utils/azureRealtimeWebSocket.js, lines 666-1524).   *)
(*                                                                         *)
(* The service object is the record svc; every handler of the class is an  *)
(* operator from a service record to a service record, composed exactly as *)
(* the methods call each other.  JavaScript runs each callback to          *)
(* completion, so one handler is one atomic step.  The fields out and      *)
(* calls of the record are the socket writes and the caller callbacks made *)
(* during the last step, in order.                                         *)
(***************************************************************************)
EXTENDS Integers, Sequences, FiniteSets, TLC

VARIABLES svc, outstanding, turnCommits, awaitingAccepted, loudSubmitted,
          rejections, replayed, turn, pubRun, idle, owed, ignored, router,
          tsvc, tevent

vars == <<svc, outstanding, turnCommits, awaitingAccepted, loudSubmitted,
          rejections, replayed, turn, pubRun, idle, owed, ignored, router,
          tsvc, tevent>>

\* the transcript-gated service and the last event it handled
gatedVars == <<tsvc, tevent>>

(***************************************************************************)
(* Bounds of the model.                                                    *)
(***************************************************************************)
MaxFrames == 2        \* sendAudio calls that reach the silence gate
MaxRejections == 1    \* commit_failed / commit_no_audio / commit_empty events
MaxText == 3          \* characters the text buffer may hold

(***************************************************************************)
(* Program constants (constructor, lines 726-742).                         *)
(***************************************************************************)
minCommitBytes == 6400
forceCommitBytes == 48000
minAudioChunkBytes == 16000
commitTimeoutMs == 500
commitGracePeriodMs == 80
\* silenceRmsThreshold = 0.008: rms < 0.008 iff meanSquare * 15625 < 2^30,
\* where meanSquare is the mean of the squared raw int16 samples.
silenceThresholdDen == 15625
silenceThresholdNum == 1073741824
\* the threshold and the floor of the silence gate, in thousandths of full scale
defaultSilenceRms == 8
rmsFloor == 1

(***************************************************************************)
(* Audio frames.  A frame is a Buffer of len bytes of PCM16 in which every *)
(* sample has the value amp.                                               *)
(***************************************************************************)
Frames == { [len |-> 3200,  amp |-> 262],
            [len |-> 3200,  amp |-> 263],
            [len |-> 48000, amp |-> 300] }

Deltas == { <<>>, <<"a">>, <<"b">> }
Transcripts == { <<>>, <<"b">>, <<"a", "b">> }

Min(a, b) == IF a < b THEN a ELSE b

RECURSIVE SumLen(_)
SumLen(q) == IF q = <<>> THEN 0 ELSE Head(q).len + SumLen(Tail(q))

CountType(q, t) == Cardinality({ i \in 1..Len(q) : q[i].type = t })

(***************************************************************************)
(* Construction.                                                           *)
(***************************************************************************)
NewService(gateOff) ==
    [ isConnected |-> FALSE,
      isInitialized |-> FALSE,
      socket |-> "null",          \* "null" or the readyState of this.socket
      initPending |-> FALSE,      \* the 3 s timer of init() is armed
      zombie |-> FALSE,           \* a socket released by close() still delivers events
      textBuffer |-> <<>>,
      lastPublishedLength |-> 0,
      lastLoggedLength |-> 0,
      responseDelivered |-> FALSE,
      audioBuffer |-> <<>>,
      isCommitting |-> FALSE,
      responseInProgress |-> FALSE,
      commitTimer |-> 0,          \* 0 is null, otherwise a timer handle
      timers |-> {},              \* the armed setTimeout callbacks
      speechActive |-> FALSE,
      hasNewAudioSinceLastCommit |-> FALSE,
      pauseForEmptyCommit |-> FALSE,
      pendingCommitRequest |-> <<>>,   \* <<>> is null, otherwise <<[force, reason]>>
      pendingAudioBytes |-> 0,
      disableSilenceGate |-> gateOff,
      silenceRmsThreshold |-> defaultSilenceRms,
      metrics |-> [ audioChunksAccepted |-> 0,
                    audioChunksSkipped |-> 0,
                    commitsAttempted |-> 0,
                    responsesRequested |-> 0,
                    emptyCommitWarnings |-> 0 ],
      out |-> <<>>,               \* socket writes of the last step
      outFlag |-> <<>>,           \* hasNewAudioSinceLastCommit at each of those writes
      calls |-> <<>> ]            \* caller callbacks of the last step

(***************************************************************************)
(* send(): writes only to an open socket.                                  *)
(***************************************************************************)
socketOpen(s) == s.socket = "OPEN"

send(s, message) ==
    IF socketOpen(s)
    THEN [s EXCEPT !.out = Append(@, message),
                   !.outFlag = Append(@, s.hasNewAudioSinceLastCommit)]
    ELSE s

callback(s, name, arg) == [s EXCEPT !.calls = Append(@, [name |-> name, arg |-> arg])]

(***************************************************************************)
(* The silence gate.                                                       *)
(***************************************************************************)
calculateRms(buffer) ==
    \* the mean of the squared samples (the square of the RMS, times 2^30)
    IF buffer.len < 2 THEN 0 ELSE buffer.amp * buffer.amp

belowThreshold(buffer) ==
    calculateRms(buffer) * silenceThresholdDen < silenceThresholdNum

\* the gate that lets every frame through
isAudioSilent_never(s, buffer) == FALSE

isAudioSilent(s, buffer) ==
    \* rms < this.silenceRmsThreshold, both sides squared and scaled
    IF s.disableSilenceGate THEN FALSE
    ELSE calculateRms(buffer) * silenceThresholdDen
            < (silenceThresholdNum \div (defaultSilenceRms * defaultSilenceRms))
                 * s.silenceRmsThreshold * s.silenceRmsThreshold

(***************************************************************************)
(* Timers.                                                                 *)
(***************************************************************************)
getBufferedAudioBytes(s) ==
    IF Len(s.audioBuffer) = 1 THEN s.audioBuffer[1].len ELSE SumLen(s.audioBuffer)

clearCommitTimer(s) ==
    IF s.commitTimer # 0
    THEN [s EXCEPT !.timers = { t \in @ : t.h # s.commitTimer }, !.commitTimer = 0]
    ELSE s

FreshHandle(s) == CHOOSE h \in 1..(Cardinality(s.timers) + 1) :
                      \A t \in s.timers : t.h # h

\* a scheduling that arms nothing
scheduleCommit_noTimer(s, delay, force, reason) == s

\* a scheduling that leaves the previous timer running
scheduleCommit_keepsOld(s, delay, force, reason) ==
    IF ~s.hasNewAudioSinceLastCommit /\ ~force THEN s
    ELSE LET h == FreshHandle(s)
         IN [s EXCEPT !.timers = @ \cup {[h |-> h, delay |-> delay,
                                          force |-> force, reason |-> reason]},
                      !.commitTimer = h]

scheduleCommit(s, delay, force, reason) ==
    IF ~s.hasNewAudioSinceLastCommit /\ ~force THEN s
    ELSE LET c == clearCommitTimer(s)
             h == FreshHandle(c)
         IN [c EXCEPT !.timers = @ \cup {[h |-> h, delay |-> delay,
                                          force |-> force, reason |-> reason]},
                      !.commitTimer = h]

(***************************************************************************)
(* sendBufferedAudioChunks: the buffered frames are grouped into payloads  *)
(* of at least minAudioChunkBytes, the remainder is one last payload.  A   *)
(* payload is the sequence of the frames concatenated into it.             *)
(***************************************************************************)
RECURSIVE chunkPayloads(_, _)
chunkPayloads(buffers, chunkAccumulator) ==
    IF buffers = <<>>
    THEN IF Len(chunkAccumulator) > 0 THEN <<chunkAccumulator>> ELSE <<>>
    ELSE LET acc == Append(chunkAccumulator, Head(buffers))
         IN IF SumLen(acc) >= minAudioChunkBytes
            THEN <<acc>> \o chunkPayloads(Tail(buffers), <<>>)
            ELSE chunkPayloads(Tail(buffers), acc)

RECURSIVE sendAll(_, _)
sendAll(s, payloads) ==
    IF payloads = <<>> THEN s
    ELSE IF ~socketOpen(s) THEN s
    ELSE sendAll(send(s, [type |-> "input_audio_buffer.append",
                          audio |-> Head(payloads)]), Tail(payloads))

\* the result of sendBufferedAudioChunks: the service after the writes and
\* the boolean the method returns
sendBufferedAudioChunks(s) ==
    IF ~socketOpen(s) THEN [s |-> s, ok |-> FALSE]
    ELSE IF Len(s.audioBuffer) = 0 THEN [s |-> s, ok |-> TRUE]
    ELSE [s |-> sendAll(s, chunkPayloads(s.audioBuffer, <<>>)), ok |-> TRUE]

(***************************************************************************)
(* commitAudioBufferAndCreateResponse.                                     *)
(***************************************************************************)
\* the pending-audio flag reset at the start of the attempt instead of its end
commitBegin_clearsFlag(s) ==
    LET c == clearCommitTimer([s EXCEPT !.isCommitting = TRUE,
                                        !.hasNewAudioSinceLastCommit = FALSE])
    IN [c EXCEPT !.metrics.commitsAttempted = @ + 1]

\* a start of attempt that leaves the commit counter alone
commitBegin_uncounted(s) == clearCommitTimer([s EXCEPT !.isCommitting = TRUE])

commitBegin(s) ==
    LET c == clearCommitTimer([s EXCEPT !.isCommitting = TRUE])
    IN [c EXCEPT !.metrics.commitsAttempted = @ + 1]

requestResponse(s) ==
    IF ~s.responseInProgress
    THEN LET r == [s EXCEPT !.responseInProgress = TRUE]
         IN IF ~socketOpen(r)
            THEN [r EXCEPT !.responseInProgress = FALSE]
            ELSE [send(r, [type |-> "response.create"])
                     EXCEPT !.metrics.responsesRequested = @ + 1]
    ELSE s

\* an attempt that requests the response before it commits the audio
commitTry_createFirst(s) ==
    IF ~socketOpen(s) THEN s
    ELSE LET a == sendBufferedAudioChunks(s)
         IN IF ~a.ok THEN a.s
            ELSE IF ~socketOpen(a.s) THEN a.s
            ELSE send(send(requestResponse(a.s), [type |-> "input_audio_buffer.commit"]),
                      [type |-> "conversation.item.create"])

commitTry(s) ==
    IF ~socketOpen(s) THEN s
    ELSE LET a == sendBufferedAudioChunks(s)
         IN IF ~a.ok THEN a.s
            ELSE IF ~socketOpen(a.s) THEN a.s
            ELSE requestResponse(
                    send(send(a.s, [type |-> "input_audio_buffer.commit"]),
                         [type |-> "conversation.item.create"]))

\* an end of attempt that leaves the busy flag set
commitFinally_keepsBusy(s) ==
    [s EXCEPT !.audioBuffer = <<>>,
              !.hasNewAudioSinceLastCommit = FALSE,
              !.pendingAudioBytes = 0]

\* an end of attempt that leaves the committed frames in the buffer
commitFinally_keepsAudio(s) ==
    [s EXCEPT !.isCommitting = FALSE,
              !.hasNewAudioSinceLastCommit = FALSE,
              !.pendingAudioBytes = 0]

commitFinally(s) ==
    [s EXCEPT !.audioBuffer = <<>>,
              !.isCommitting = FALSE,
              !.hasNewAudioSinceLastCommit = FALSE,
              !.pendingAudioBytes = 0]

\* an attempt that gives up below the minimum without arming a timer
commitAudioBufferAndCreateResponse_noRearm(s, force, reason) ==
    IF s.responseInProgress
    THEN IF s.pendingCommitRequest = <<>>
         THEN [s EXCEPT !.pendingCommitRequest = <<[force |-> force, reason |-> reason]>>]
         ELSE s
    ELSE IF s.isCommitting THEN s
    ELSE IF s.pauseForEmptyCommit /\ ~force THEN s
    ELSE IF ~s.hasNewAudioSinceLastCommit THEN s
    ELSE IF getBufferedAudioBytes(s) = 0 THEN s
    ELSE IF ~force /\ getBufferedAudioBytes(s) < minCommitBytes THEN s
    ELSE commitFinally(commitTry(commitBegin(s)))

commitAudioBufferAndCreateResponse(s, force, reason) ==
    IF s.responseInProgress
    THEN IF s.pendingCommitRequest = <<>>
         THEN [s EXCEPT !.pendingCommitRequest = <<[force |-> force, reason |-> reason]>>]
         ELSE s
    ELSE IF s.isCommitting THEN s
    ELSE IF s.pauseForEmptyCommit /\ ~force THEN s
    ELSE IF ~s.hasNewAudioSinceLastCommit THEN s
    ELSE IF getBufferedAudioBytes(s) = 0 THEN s
    ELSE IF ~force /\ getBufferedAudioBytes(s) < minCommitBytes
         THEN scheduleCommit(s, commitTimeoutMs, force, reason)
    ELSE commitFinally(commitTry(commitBegin(s)))

\* the callback armed by scheduleCommit
commitTimerCallback(s, t) ==
    LET c == [s EXCEPT !.commitTimer = 0, !.timers = @ \ {t}]
    IN IF ~c.hasNewAudioSinceLastCommit THEN c
       ELSE IF c.pauseForEmptyCommit /\ ~t.force THEN c
       ELSE IF c.speechActive /\ ~t.force
            THEN scheduleCommit(c, commitTimeoutMs, t.force, t.reason)
       ELSE IF c.responseInProgress \/ c.isCommitting
            THEN IF c.pendingCommitRequest = <<>>
                 THEN [c EXCEPT !.pendingCommitRequest =
                                    <<[force |-> t.force, reason |-> t.reason]>>]
                 ELSE c
       ELSE commitAudioBufferAndCreateResponse(c, t.force, t.reason)

(***************************************************************************)
(* sendAudio and sendText (past their initialisation check).               *)
(***************************************************************************)
\* a sendAudio that leaves every commit to the timer
sendAudio_neverForces(s, audioData) ==
    IF isAudioSilent(s, audioData)
    THEN [s EXCEPT !.metrics.audioChunksSkipped = @ + 1]
    ELSE scheduleCommit([s EXCEPT !.audioBuffer = Append(@, audioData),
                                  !.metrics.audioChunksAccepted = @ + 1,
                                  !.hasNewAudioSinceLastCommit = TRUE,
                                  !.pauseForEmptyCommit = FALSE,
                                  !.pendingAudioBytes = @ + audioData.len],
                        commitTimeoutMs, FALSE, "timer")

\* a gate that raises its threshold with every frame it drops
sendAudio_raisesThreshold(s, audioData) ==
    IF isAudioSilent(s, audioData)
    THEN [s EXCEPT !.metrics.audioChunksSkipped = @ + 1,
                   !.silenceRmsThreshold = @ + 1]
    ELSE LET b == [s EXCEPT !.audioBuffer = Append(@, audioData),
                            !.metrics.audioChunksAccepted = @ + 1,
                            !.hasNewAudioSinceLastCommit = TRUE,
                            !.pauseForEmptyCommit = FALSE,
                            !.pendingAudioBytes = @ + audioData.len]
         IN IF /\ getBufferedAudioBytes(b) >= forceCommitBytes
               /\ ~b.isCommitting
               /\ ~b.responseInProgress
            THEN commitAudioBufferAndCreateResponse(b, FALSE, "buffer_threshold")
            ELSE scheduleCommit(b, commitTimeoutMs, FALSE, "timer")

sendAudio(s, audioData) ==
    IF isAudioSilent(s, audioData)
    THEN [s EXCEPT !.metrics.audioChunksSkipped = @ + 1]
    ELSE LET b == [s EXCEPT !.audioBuffer = Append(@, audioData),
                            !.metrics.audioChunksAccepted = @ + 1,
                            !.hasNewAudioSinceLastCommit = TRUE,
                            !.pauseForEmptyCommit = FALSE,
                            !.pendingAudioBytes = @ + audioData.len]
         IN IF /\ getBufferedAudioBytes(b) >= forceCommitBytes
               /\ ~b.isCommitting
               /\ ~b.responseInProgress
            THEN commitAudioBufferAndCreateResponse(b, FALSE, "buffer_threshold")
            ELSE scheduleCommit(b, commitTimeoutMs, FALSE, "timer")

sendText(s, text) ==
    send(send(s, [type |-> "conversation.item.create"]),
         [type |-> "response.create"])

(***************************************************************************)
(* publishTextUpdate.                                                      *)
(***************************************************************************)
\* a publish that delivers whether forced or not
publishTextUpdate_eager(s, force) ==
    IF s.textBuffer = <<>> THEN s
    ELSE callback([s EXCEPT !.lastLoggedLength = Len(s.textBuffer),
                            !.lastPublishedLength = Len(s.textBuffer),
                            !.responseDelivered = TRUE],
                  "onMessage", s.textBuffer)

\* a forced publish without the delivered-at-this-length guard
publishTextUpdate_noGuard(s, force) ==
    IF s.textBuffer = <<>> THEN s
    ELSE LET l == [s EXCEPT !.lastLoggedLength = Len(s.textBuffer)]
         IN IF ~force THEN l
            ELSE callback([l EXCEPT !.lastPublishedLength = Len(l.textBuffer),
                                    !.responseDelivered = TRUE],
                          "onMessage", l.textBuffer)

publishTextUpdate(s, force) ==
    IF s.textBuffer = <<>> THEN s
    ELSE LET l == IF Len(s.textBuffer) - s.lastLoggedLength > 0
                  THEN [s EXCEPT !.lastLoggedLength = Len(s.textBuffer)]
                  ELSE s
         IN IF ~force THEN l
            ELSE IF l.responseDelivered /\ Len(l.textBuffer) = l.lastPublishedLength
                 THEN l
            ELSE callback([l EXCEPT !.lastPublishedLength = Len(l.textBuffer),
                                    !.responseDelivered = TRUE],
                          "onMessage", l.textBuffer)

(***************************************************************************)
(* handleWebSocketMessage, one operator per case of the switch.            *)
(***************************************************************************)
resetText(s) ==
    [s EXCEPT !.textBuffer = <<>>,
              !.lastPublishedLength = 0,
              !.lastLoggedLength = 0,
              !.responseDelivered = FALSE]

handle_response_created(s) == resetText(s)

handle_response_text_delta(s, delta) ==
    IF delta # <<>>
    THEN publishTextUpdate([s EXCEPT !.textBuffer = @ \o delta], FALSE)
    ELSE s

handle_response_audio_transcript_delta(s, delta) ==
    publishTextUpdate([s EXCEPT !.textBuffer = @ \o delta], FALSE)

handle_response_audio_transcript_done(s, transcript) ==
    publishTextUpdate([s EXCEPT !.textBuffer = transcript], FALSE)

handle_response_content_part_done(s, transcript) ==
    publishTextUpdate([s EXCEPT !.textBuffer = transcript], FALSE)

\* a speech_started that also drops the audio buffered so far
handle_speech_started_clearsAudio(s) ==
    LET c == clearCommitTimer([s EXCEPT !.speechActive = TRUE])
    IN callback([c EXCEPT !.pauseForEmptyCommit = FALSE,
                          !.pendingCommitRequest = <<>>,
                          !.hasNewAudioSinceLastCommit = FALSE,
                          !.audioBuffer = <<>>,
                          !.pendingAudioBytes = 0],
                "onStatus", "Listening...")

handle_speech_started(s) ==
    LET c == clearCommitTimer([s EXCEPT !.speechActive = TRUE])
    IN callback([c EXCEPT !.pauseForEmptyCommit = FALSE,
                          !.pendingCommitRequest = <<>>,
                          !.hasNewAudioSinceLastCommit = Len(c.audioBuffer) > 0],
                "onStatus", "Listening...")

\* a speech_stopped that commits at once instead of after the grace period
handle_speech_stopped_immediate(s) ==
    LET c == [s EXCEPT !.speechActive = FALSE]
    IN IF c.hasNewAudioSinceLastCommit
       THEN commitAudioBufferAndCreateResponse(c, TRUE, "speech_stopped")
       ELSE c

handle_speech_stopped(s) ==
    LET c == [s EXCEPT !.speechActive = FALSE]
    IN IF c.hasNewAudioSinceLastCommit
       THEN scheduleCommit(c, commitGracePeriodMs, TRUE, "speech_stopped")
       ELSE c

\* a failure that pauses but keeps the deferred request and the byte count
handle_commit_failed_keepsRequest(s) ==
    [s EXCEPT !.responseInProgress = FALSE,
              !.pauseForEmptyCommit = TRUE,
              !.hasNewAudioSinceLastCommit = FALSE,
              !.audioBuffer = <<>>]

handle_commit_failed(s) ==
    [s EXCEPT !.responseInProgress = FALSE,
              !.pauseForEmptyCommit = TRUE,
              !.hasNewAudioSinceLastCommit = FALSE,
              !.pendingCommitRequest = <<>>,
              !.audioBuffer = <<>>,
              !.pendingAudioBytes = 0]

\* a rejection that clears the buffer but keeps the byte count
handle_commit_no_audio_keepsBytes(s) ==
    [s EXCEPT !.responseInProgress = FALSE,
              !.pauseForEmptyCommit = TRUE,
              !.metrics.emptyCommitWarnings = @ + 1,
              !.hasNewAudioSinceLastCommit = FALSE,
              !.pendingCommitRequest = <<>>,
              !.audioBuffer = <<>>]

handle_commit_no_audio(s) ==
    [s EXCEPT !.responseInProgress = FALSE,
              !.pauseForEmptyCommit = TRUE,
              !.metrics.emptyCommitWarnings = @ + 1,
              !.hasNewAudioSinceLastCommit = FALSE,
              !.pendingCommitRequest = <<>>,
              !.audioBuffer = <<>>,
              !.pendingAudioBytes = 0]

\* a rejection that pauses but keeps the buffered audio and its flag
handle_commit_empty_keepsAudio(s) ==
    [s EXCEPT !.pauseForEmptyCommit = TRUE,
              !.metrics.emptyCommitWarnings = @ + 1,
              !.pendingCommitRequest = <<>>]

handle_commit_empty(s) ==
    [s EXCEPT !.pauseForEmptyCommit = TRUE,
              !.metrics.emptyCommitWarnings = @ + 1,
              !.hasNewAudioSinceLastCommit = FALSE,
              !.pendingCommitRequest = <<>>,
              !.audioBuffer = <<>>,
              !.pendingAudioBytes = 0]

\* a completion that clears the text but keeps the published bookmark
handle_response_done_keepsBookmark(s) ==
    LET a == [s EXCEPT !.responseInProgress = FALSE]
        b == IF a.textBuffer # <<>> THEN publishTextUpdate(a, TRUE) ELSE a
        c == callback(callback(b, "onStatus", "Ready"), "onComplete", "")
        d == [resetText(c) EXCEPT !.lastPublishedLength = c.lastPublishedLength]
    IN IF /\ d.pendingCommitRequest # <<>>
          /\ d.hasNewAudioSinceLastCommit
          /\ Len(d.audioBuffer) > 0
       THEN commitAudioBufferAndCreateResponse(
                [d EXCEPT !.pendingCommitRequest = <<>>],
                d.pendingCommitRequest[1].force,
                d.pendingCommitRequest[1].reason \o "_post_response")
       ELSE [d EXCEPT !.pendingCommitRequest = <<>>]

\* a completion that replays the deferred request without dropping it
handle_response_done_keepsRequest(s) ==
    LET a == [s EXCEPT !.responseInProgress = FALSE]
        b == IF a.textBuffer # <<>> THEN publishTextUpdate(a, TRUE) ELSE a
        c == callback(callback(b, "onStatus", "Ready"), "onComplete", "")
        d == resetText(c)
    IN IF /\ d.pendingCommitRequest # <<>>
          /\ d.hasNewAudioSinceLastCommit
          /\ Len(d.audioBuffer) > 0
       THEN [commitAudioBufferAndCreateResponse(
                [d EXCEPT !.pendingCommitRequest = <<>>],
                d.pendingCommitRequest[1].force,
                d.pendingCommitRequest[1].reason \o "_post_response")
                EXCEPT !.pendingCommitRequest = d.pendingCommitRequest]
       ELSE d

handle_response_done(s) ==
    LET a == [s EXCEPT !.responseInProgress = FALSE]
        b == IF a.textBuffer # <<>> THEN publishTextUpdate(a, TRUE) ELSE a
        c == callback(callback(b, "onStatus", "Ready"), "onComplete", "")
        d == resetText(c)
    IN IF /\ d.pendingCommitRequest # <<>>
          /\ d.hasNewAudioSinceLastCommit
          /\ Len(d.audioBuffer) > 0
       THEN commitAudioBufferAndCreateResponse(
                [d EXCEPT !.pendingCommitRequest = <<>>],
                d.pendingCommitRequest[1].force,
                d.pendingCommitRequest[1].reason \o "_post_response")
       ELSE [d EXCEPT !.pendingCommitRequest = <<>>]

handle_response_error(s) ==
    [s EXCEPT !.responseInProgress = FALSE, !.pendingCommitRequest = <<>>]

handle_error(s, code) ==
    callback(IF code = "conversation_already_has_active_response"
             THEN [s EXCEPT !.responseInProgress = TRUE,
                            !.pendingCommitRequest =
                                <<[force |-> TRUE, reason |-> "server_active_response"]>>]
             ELSE [s EXCEPT !.responseInProgress = FALSE],
             "onError", code)

\* a default case that starts a new response text
handle_default_resets(s) == resetText(s)

\* the default case of the switch: the type is logged
handle_default(s) == s

\* the socket's 'message' listener for a payload that does not parse (the
\* exception of JSON.parse, or of reading the type of a null message, is
\* caught and logged) or whose type has no case in the switch
onSocketMessage(s, data) ==
    IF ~data.parses THEN s ELSE handle_default(s)

(***************************************************************************)
(* init(), the socket events and close().                                  *)
(***************************************************************************)
initSocket(s) == [s EXCEPT !.socket = "CONNECTING", !.initPending = TRUE]

initTimeout(s) ==
    LET c == [s EXCEPT !.initPending = FALSE]
    IN IF socketOpen(c)
       THEN callback([send(c, [type |-> "session.update"])
                         EXCEPT !.isInitialized = TRUE, !.isConnected = TRUE],
                     "onStatus", "Connected")
       ELSE c

onSocketError(s) ==
    callback([s EXCEPT !.responseInProgress = FALSE, !.isCommitting = FALSE],
             "onError", "socket")

onSocketClose(s) ==
    LET c == clearCommitTimer([s EXCEPT !.isConnected = FALSE, !.isInitialized = FALSE])
    IN callback([c EXCEPT !.audioBuffer = <<>>,
                          !.speechActive = FALSE,
                          !.isCommitting = FALSE,
                          !.responseInProgress = FALSE],
                "onStatus", "Disconnected")

close(s) ==
    LET c == IF s.commitTimer # 0 THEN clearCommitTimer(s) ELSE s
        d == IF c.socket # "null"
             THEN [c EXCEPT !.zombie = c.socket \in {"OPEN", "CLOSING", "CONNECTING"},
                            !.socket = "null"]
             ELSE c
    IN [d EXCEPT !.isConnected = FALSE,
                 !.isInitialized = FALSE,
                 !.audioBuffer = <<>>,
                 !.responseInProgress = FALSE,
                 !.isCommitting = FALSE,
                 !.lastPublishedLength = 0,
                 !.textBuffer = <<>>]

(***************************************************************************)
(* The audio router (audioRouter.js).  azureServiceRef and geminiSessionRef *)
(* hold whether their .current is set; reply is what the last chunk        *)
(* handler returned and where it sent the chunk.                           *)
(***************************************************************************)
validModes == {"speaker_only", "mic_only", "both"}

NoReply == [source |-> "none", audioMode |-> "none", attached |-> FALSE,
            sentTo |-> "none", success |-> FALSE, skipped |-> ""]

NewRouter ==
    [ geminiSessionRef |-> FALSE,
      azureServiceRef |-> FALSE,
      routingActive |-> FALSE,
      audioMode |-> "speaker_only",
      reply |-> NoReply ]

setAudioMode(r, mode) ==
    IF mode \notin validModes THEN r ELSE [r EXCEPT !.audioMode = mode]

startRouting(r) == [r EXCEPT !.routingActive = TRUE]

stopRouting(r) == [r EXCEPT !.routingActive = FALSE]

\* the reply of a chunk handler; sentTo names the service whose handler ran
Reply(r, source, sentTo, success, skipped) ==
    [r EXCEPT !.reply = [source |-> source, audioMode |-> r.audioMode,
                         attached |-> r.azureServiceRef, sentTo |-> sentTo,
                         success |-> success, skipped |-> skipped]]

fallbackToGemini(r, source) ==
    IF ~r.geminiSessionRef
    THEN Reply(r, source, "none", FALSE, "")
    ELSE Reply(r, source, "gemini", TRUE, "")

\* sent is whether sendAudio of the attached service returned without throwing
handleAudioContent(r, sent) ==
    IF r.azureServiceRef
    THEN LET allowSystemAudio == r.audioMode = "speaker_only" \/ r.audioMode = "both"
         IN IF ~allowSystemAudio
            THEN Reply(r, "system", "none", TRUE, "azure-system-audio-disabled")
            ELSE Reply(r, "system", "azure", sent, "")
    ELSE fallbackToGemini(r, "system")

\* a microphone handler that lets every mode through
handleMicAudioContent_anyMode(r, sent) ==
    IF r.azureServiceRef
    THEN Reply(r, "mic", "azure", sent, "")
    ELSE fallbackToGemini(r, "mic")

handleMicAudioContent(r, sent) ==
    IF r.azureServiceRef
    THEN LET allowMicAudio == r.audioMode = "mic_only" \/ r.audioMode = "both"
         IN IF ~allowMicAudio
            THEN Reply(r, "mic", "none", TRUE, "azure-mic-audio-disabled")
            ELSE Reply(r, "mic", "azure", sent, "")
    ELSE fallbackToGemini(r, "mic")

\* the handler registered for a channel: the router's while routing is
\* active, otherwise the Gemini handler
ipcHandle(r, source, sent) ==
    IF r.routingActive
    THEN IF source = "system" THEN handleAudioContent(r, sent)
                              ELSE handleMicAudioContent(r, sent)
    ELSE Reply(r, source, "gemini", TRUE, "")

(***************************************************************************)
(* The transcript-gated variant of the service (the first class of         *)
(* azureRealtimeWebSocket.js): a commit is answered by a transcript, and   *)
(* the transcript requests the response.  Its text fields are written by   *)
(* the text handlers alone and are left out.  A transcript is a sequence   *)
(* of characters, " " among them.                                          *)
(***************************************************************************)
NewGatedService ==
    [ isConnected |-> FALSE,
      isInitialized |-> FALSE,
      socket |-> "null",
      initPending |-> FALSE,
      audioBuffer |-> <<>>,
      isCommitting |-> FALSE,
      responseInProgress |-> FALSE,
      pendingResponse |-> FALSE,
      commitTimer |-> FALSE,      \* whether a commit timer is armed
      lastTranscript |-> <<>>,
      lastTranscriptId |-> "null",
      out |-> <<>>,               \* socket writes of the last step
      calls |-> <<>> ]            \* caller callbacks of the last step

gatedSend(s, message) ==
    IF s.socket = "OPEN"
    THEN [s |-> [s EXCEPT !.out = Append(@, message)], ok |-> TRUE]
    ELSE [s |-> s, ok |-> FALSE]

gatedCallback(s, name) == [s EXCEPT !.calls = Append(@, name)]

gatedInit(s) == [s EXCEPT !.socket = "CONNECTING", !.initPending = TRUE]

gatedInitTimeout(s) ==
    LET c == [s EXCEPT !.initPending = FALSE]
    IN IF c.socket = "OPEN"
       THEN gatedCallback([gatedSend(c, [type |-> "session.update"]).s
                              EXCEPT !.isInitialized = TRUE, !.isConnected = TRUE],
                          "onStatus")
       ELSE c

gatedOnSocketClose(s) ==
    gatedCallback([s EXCEPT !.socket = "CLOSED",
                            !.isConnected = FALSE,
                            !.isInitialized = FALSE],
                  "onStatus")

gatedScheduleCommit(s) == [s EXCEPT !.commitTimer = TRUE]

RECURSIVE gatedSendAll(_, _)
gatedSendAll(s, payloads) ==
    IF payloads = <<>> THEN [s |-> s, ok |-> TRUE]
    ELSE LET r == gatedSend(s, [type |-> "input_audio_buffer.append",
                                audio |-> Head(payloads)])
         IN IF ~r.ok THEN r ELSE gatedSendAll(r.s, Tail(payloads))

gatedSendBufferedAudioChunks(s) ==
    IF s.socket # "OPEN" THEN [s |-> s, ok |-> FALSE]
    ELSE IF Len(s.audioBuffer) = 0 THEN [s |-> s, ok |-> TRUE]
    ELSE gatedSendAll(s, chunkPayloads(s.audioBuffer, <<>>))

gatedCommitTry(s) ==
    IF s.socket # "OPEN" THEN [s EXCEPT !.audioBuffer = <<>>]
    ELSE LET a == gatedSendBufferedAudioChunks(s)
         IN IF ~a.ok THEN [a.s EXCEPT !.pendingResponse = FALSE]
            ELSE LET c == gatedSend(a.s, [type |-> "input_audio_buffer.commit"])
                 IN IF ~c.ok THEN [c.s EXCEPT !.pendingResponse = FALSE]
                    ELSE [c.s EXCEPT !.pendingResponse = TRUE]

gatedCommitFinally(s) == [s EXCEPT !.audioBuffer = <<>>, !.isCommitting = FALSE]

gatedCommitAudioBufferAndCreateResponse(s) ==
    IF s.isCommitting \/ s.responseInProgress \/ s.pendingResponse
          \/ Len(s.audioBuffer) = 0
    THEN s
    ELSE IF getBufferedAudioBytes(s) < minCommitBytes
         THEN gatedScheduleCommit(s)
    ELSE gatedCommitFinally(gatedCommitTry([s EXCEPT !.isCommitting = TRUE]))

gatedCommitTimerCallback(s) ==
    LET c == [s EXCEPT !.commitTimer = FALSE]
    IN IF Len(c.audioBuffer) = 0 THEN c
       ELSE IF c.responseInProgress \/ c.isCommitting \/ c.pendingResponse
            THEN gatedScheduleCommit(c)
       ELSE gatedCommitAudioBufferAndCreateResponse(c)

gatedSendAudio(s, audioData) ==
    LET b == [s EXCEPT !.audioBuffer = Append(@, audioData)]
    IN IF /\ getBufferedAudioBytes(b) >= forceCommitBytes
          /\ ~b.isCommitting
          /\ ~b.responseInProgress
          /\ ~b.pendingResponse
       THEN gatedCommitAudioBufferAndCreateResponse(b)
       ELSE gatedScheduleCommit(b)

gatedSendText(s) ==
    gatedSend(gatedSend(s, [type |-> "conversation.item.create"]).s,
              [type |-> "response.create"]).s

\* String.prototype.trim: the white space at both ends is removed
RECURSIVE trimStart(_)
trimStart(text) ==
    IF text # <<>> /\ Head(text) = " " THEN trimStart(Tail(text)) ELSE text

RECURSIVE trimEnd(_)
trimEnd(text) ==
    IF text # <<>> /\ text[Len(text)] = " "
    THEN trimEnd(SubSeq(text, 1, Len(text) - 1))
    ELSE text

trim(text) == trimEnd(trimStart(text))

isDuplicateTranscript(s, cleanedTranscript, transcriptId) ==
    \/ /\ transcriptId # "null"
       /\ s.lastTranscriptId = transcriptId
       /\ s.lastTranscript = cleanedTranscript
    \/ /\ transcriptId = "null"
       /\ s.lastTranscript = cleanedTranscript

\* a handler that requests a response for a repeated transcript too
gatedTranscriptionCompleted_repeats(s, transcript, transcriptId) ==
    IF transcript = <<>> THEN s
    ELSE LET cleanedTranscript == trim(transcript)
             c == IF cleanedTranscript # <<>> THEN gatedCallback(s, "onTranscription")
                                            ELSE s
         IN IF ~c.pendingResponse THEN c
            ELSE IF Len(cleanedTranscript) = 0
                 THEN [c EXCEPT !.pendingResponse = FALSE]
            ELSE LET d == [c EXCEPT !.lastTranscript = cleanedTranscript,
                                    !.lastTranscriptId = transcriptId,
                                    !.pendingResponse = FALSE,
                                    !.responseInProgress = TRUE]
                     r == gatedSend(d, [type |-> "response.create"])
                 IN IF ~r.ok THEN [r.s EXCEPT !.responseInProgress = FALSE] ELSE r.s

\* the case 'conversation.item.input_audio_transcription.completed'; the
\* empty string is falsy and skips the whole case
gatedTranscriptionCompleted(s, transcript, transcriptId) ==
    IF transcript = <<>> THEN s
    ELSE LET cleanedTranscript == trim(transcript)
             c == IF cleanedTranscript # <<>> THEN gatedCallback(s, "onTranscription")
                                            ELSE s
         IN IF ~c.pendingResponse THEN c
            ELSE IF Len(cleanedTranscript) = 0
                 THEN [c EXCEPT !.pendingResponse = FALSE]
            ELSE IF isDuplicateTranscript(c, cleanedTranscript, transcriptId)
                 THEN [c EXCEPT !.pendingResponse = FALSE]
            ELSE LET d == [c EXCEPT !.lastTranscript = cleanedTranscript,
                                    !.lastTranscriptId = transcriptId,
                                    !.pendingResponse = FALSE,
                                    !.responseInProgress = TRUE]
                     r == gatedSend(d, [type |-> "response.create"])
                 IN IF ~r.ok THEN [r.s EXCEPT !.responseInProgress = FALSE] ELSE r.s

gatedResponseDone(s) ==
    gatedCallback(gatedCallback([s EXCEPT !.responseInProgress = FALSE,
                                          !.pendingResponse = FALSE],
                                "onStatus"), "onComplete")

gatedError(s) ==
    gatedCallback([s EXCEPT !.pendingResponse = FALSE,
                            !.responseInProgress = FALSE], "onError")

gatedClose(s) ==
    [s EXCEPT !.commitTimer = FALSE,
              !.socket = "null",
              !.isConnected = FALSE,
              !.isInitialized = FALSE,
              !.audioBuffer = <<>>,
              !.responseInProgress = FALSE,
              !.isCommitting = FALSE]

NoEvent == [type |-> "", transcript |-> <<>>, itemId |-> "null", frames |-> 0]

(***************************************************************************)
(* Observers.  They record what the steps did and never influence svc.     *)
(*   outstanding      response.create events not yet answered by a         *)
(*                    response.done / response.error on this connection    *)
(*                    (2 stands for two or more)                           *)
(*   turnCommits      commits emitted since the last speech_started        *)
(*                    (-1 before the first one, 2 stands for two or more)  *)
(*   awaitingAccepted a commit rejection arrived and sendAudio accepted no *)
(*                    frame since                                          *)
(*   loudSubmitted    sendAudio has been given a frame at or above the     *)
(*                    RMS threshold                                        *)
(*   rejections       commit rejections received                           *)
(*   replayed         the reason of the deferred request whose commit the  *)
(*                    last step, a response.done, emitted ("" otherwise)   *)
(*   turn             the text deltas of the current response              *)
(*   pubRun           forced publishes and deliveries since the text       *)
(*                    buffer last changed (2 stands for two or more)       *)
(*   idle             the caller and the server have gone quiet after an   *)
(*                    accepted frame: from now on only timers run          *)
(*   owed             the frames sendAudio accepted since the last commit  *)
(*                    or rejection, in arrival order (those of a commit    *)
(*                    stay until the next step)                            *)
(*   ignored          the last step was the arrival of a message that does *)
(*                    not parse or has no case in the switch               *)
(***************************************************************************)
Begin(s) == [s EXCEPT !.out = <<>>, !.outFlag = <<>>, !.calls = <<>>]

Commits(s) == CountType(s.out, "input_audio_buffer.commit")
Appends(s) == CountType(s.out, "input_audio_buffer.append")
Creates(s) == CountType(s.out, "response.create")
Deliveries(s) == Cardinality({ i \in 1..Len(s.calls) : s.calls[i].name = "onMessage" })

RECURSIVE AppendedBytes(_)
AppendedBytes(q) ==
    IF q = <<>> THEN 0
    ELSE (IF Head(q).type = "input_audio_buffer.append" THEN SumLen(Head(q).audio) ELSE 0)
         + AppendedBytes(Tail(q))

Rejection == {"input_audio_buffer.commit_failed",
              "input_audio_buffer.commit_no_audio",
              "input_audio_buffer.commit_empty"}

NewTurn == [deltas |-> <<>>, replaced |-> FALSE, nonEmpty |-> FALSE,
            created |-> FALSE, early |-> FALSE]

Accepted(s1) == s1.metrics.audioChunksAccepted > svc.metrics.audioChunksAccepted

ObservedService(label, s1, arg) ==
    /\ svc' = s1
    /\ outstanding' =
          IF label = "init" THEN 0
          ELSE LET base == IF label \in {"response.done", "response.error"} /\ outstanding > 0
                           THEN outstanding - 1 ELSE outstanding
               IN Min(base + Creates(s1), 2)
    /\ turnCommits' =
          IF label = "input_audio_buffer.speech_started" THEN 0
          ELSE IF turnCommits < 0 THEN turnCommits
          ELSE Min(turnCommits + Commits(s1), 2)
    /\ awaitingAccepted' =
          IF label \in Rejection THEN TRUE
          ELSE IF label = "sendAudio" /\ Accepted(s1) THEN FALSE
          ELSE awaitingAccepted
    /\ loudSubmitted' = (loudSubmitted \/ (label = "sendAudio" /\ ~belowThreshold(arg)))
    /\ rejections' = IF label \in Rejection THEN rejections + 1 ELSE rejections
    /\ replayed' = IF label = "response.done" /\ Commits(s1) > 0
                   THEN svc.pendingCommitRequest[1].reason ELSE ""
    /\ turn' =
          IF label = "response.created" THEN [NewTurn EXCEPT !.created = TRUE]
          ELSE IF label \in {"response.done", "close"} THEN NewTurn
          ELSE IF label \in {"response.text.delta", "response.audio_transcript.delta"}
               THEN [turn EXCEPT !.deltas = IF turn.replaced THEN <<>> ELSE @ \o arg,
                                 !.nonEmpty = @ \/ arg # <<>>,
                                 !.early = @ \/ Deliveries(s1) > 0]
          ELSE IF label \in {"response.audio_transcript.done", "response.content_part.done"}
               THEN [turn EXCEPT !.deltas = <<>>, !.replaced = TRUE,
                                 !.early = @ \/ Deliveries(s1) > 0]
          ELSE [turn EXCEPT !.early = @ \/ Deliveries(s1) > 0]
    /\ pubRun' =
          IF s1.textBuffer # svc.textBuffer THEN [calls |-> 0, emits |-> 0]
          ELSE IF label = "publishTextUpdate(true)"
               THEN [calls |-> Min(pubRun.calls + 1, 2),
                     emits |-> Min(pubRun.emits + Deliveries(s1), 2)]
          ELSE pubRun
    /\ owed' =
          IF label \in Rejection \/ label = "init" THEN <<>>
          ELSE LET base == IF Commits(svc) > 0 THEN <<>> ELSE owed
               IN IF label = "sendAudio" /\ Accepted(s1) THEN Append(base, arg) ELSE base
    /\ ignored' = (label = "malformed")

Observed(label, s1, arg) ==
    /\ ObservedService(label, s1, arg)
    /\ router' = router
    /\ UNCHANGED gatedVars

Observe(label, s1, arg) == Observed(label, s1, arg) /\ idle' = idle

(***************************************************************************)
(* The initial state: the service as its constructor leaves it.            *)
(***************************************************************************)
InitWith(gateOff) ==
    /\ svc = NewService(gateOff)
    /\ outstanding = 0
    /\ turnCommits = -1
    /\ awaitingAccepted = FALSE
    /\ loudSubmitted = FALSE
    /\ rejections = 0
    /\ replayed = ""
    /\ turn = NewTurn
    /\ pubRun = [calls |-> 0, emits |-> 0]
    /\ idle = FALSE
    /\ owed = <<>>
    /\ ignored = FALSE
    /\ router = NewRouter
    /\ tsvc = NewGatedService
    /\ tevent = NoEvent

\* AZURE_REALTIME_DISABLE_SILENCE_GATE is unset: the gate is on
Init == InitWith(FALSE)

(***************************************************************************)
(* Actions: the public methods, the timers and the socket events.          *)
(***************************************************************************)
Ready(s) == s.isInitialized /\ s.socket # "null"

\* the socket of the service, or one released by close(), delivers a message
Inbound == svc.socket \in {"OPEN", "CLOSING"} \/ svc.zombie

DoInit ==
    /\ svc.socket \in {"null", "CLOSED"}
    /\ ~svc.initPending
    /\ Observe("init", initSocket(Begin(svc)), <<>>)

SocketOpen ==
    /\ svc.socket = "CONNECTING"
    /\ Observe("open", [Begin(svc) EXCEPT !.socket = "OPEN"], <<>>)

InitTimeout ==
    /\ svc.initPending
    /\ svc.socket # "null"
    /\ Observe("initTimeout", initTimeout(Begin(svc)), <<>>)

SendAudio ==
    \E audioData \in Frames :
        IF Ready(svc)
        THEN /\ svc.metrics.audioChunksAccepted + svc.metrics.audioChunksSkipped < MaxFrames
             /\ Observe("sendAudio", sendAudio(Begin(svc), audioData), audioData)
        ELSE Observe("sendAudio throws", Begin(svc), audioData)

SendText ==
    IF Ready(svc)
    THEN Observe("sendText", sendText(Begin(svc), "text"), <<>>)
    ELSE Observe("sendText throws", Begin(svc), <<>>)

CommitTimerFires ==
    \E t \in svc.timers :
        Observe("commitTimer", commitTimerCallback(Begin(svc), t), <<>>)

SpeechStarted ==
    /\ Inbound
    /\ Observe("input_audio_buffer.speech_started", handle_speech_started(Begin(svc)), <<>>)

SpeechStopped ==
    /\ Inbound
    /\ Observe("input_audio_buffer.speech_stopped", handle_speech_stopped(Begin(svc)), <<>>)

CommitFailed ==
    /\ Inbound
    /\ rejections < MaxRejections
    /\ Observe("input_audio_buffer.commit_failed", handle_commit_failed(Begin(svc)), <<>>)

CommitNoAudio ==
    /\ Inbound
    /\ rejections < MaxRejections
    /\ Observe("input_audio_buffer.commit_no_audio", handle_commit_no_audio(Begin(svc)), <<>>)

CommitEmpty ==
    /\ Inbound
    /\ rejections < MaxRejections
    /\ Observe("input_audio_buffer.commit_empty", handle_commit_empty(Begin(svc)), <<>>)

ResponseDone ==
    /\ Inbound
    /\ Observe("response.done", handle_response_done(Begin(svc)), <<>>)

ResponseError ==
    /\ Inbound
    /\ Observe("response.error", handle_response_error(Begin(svc)), <<>>)

ErrorMessage ==
    /\ Inbound
    /\ \E code \in {"conversation_already_has_active_response", "other"} :
           Observe("error", handle_error(Begin(svc), code), <<>>)

TransportClosing ==
    /\ svc.socket = "OPEN"
    /\ Observe("closing", [Begin(svc) EXCEPT !.socket = "CLOSING"], <<>>)

SocketClose ==
    \/ /\ svc.socket \in {"CONNECTING", "OPEN", "CLOSING"}
       /\ Observe("socket close", onSocketClose([Begin(svc) EXCEPT !.socket = "CLOSED"]), <<>>)
    \/ /\ svc.zombie
       /\ Observe("socket close", onSocketClose([Begin(svc) EXCEPT !.zombie = FALSE]), <<>>)

SocketError ==
    /\ svc.socket \in {"CONNECTING", "OPEN", "CLOSING"} \/ svc.zombie
    /\ Observe("socket error", onSocketError(Begin(svc)), <<>>)

Close ==
    /\ svc.socket # "null"
    /\ Observe("close", close(Begin(svc)), <<>>)

Next ==
    \/ DoInit \/ SocketOpen \/ InitTimeout
    \/ SendAudio \/ SendText \/ CommitTimerFires
    \/ SpeechStarted \/ SpeechStopped
    \/ CommitFailed \/ CommitNoAudio \/ CommitEmpty
    \/ ResponseDone \/ ResponseError \/ ErrorMessage

Spec == Init /\ [][Next]_vars

\* the same with a transport that stops being writable
NextUnwritable == Next \/ TransportClosing

SpecUnwritable == Init /\ [][NextUnwritable]_vars

\* the same with AZURE_REALTIME_DISABLE_SILENCE_GATE=1
SpecGateOff == InitWith(TRUE) /\ [][NextUnwritable]_vars

\* the same with the end of the connection: the socket's close and error
\* events, close() and a later init()
NextLifecycle == NextUnwritable \/ SocketClose \/ SocketError \/ Close

SpecLifecycle == Init /\ [][NextLifecycle]_vars

\* the end of the connection around the audio path alone: frames, timers,
\* VAD events and completed responses, then the socket's close and error
\* events, close() and a later init()
NextShutdown ==
    \/ DoInit \/ SocketOpen \/ InitTimeout
    \/ SendAudio \/ CommitTimerFires
    \/ SpeechStarted \/ SpeechStopped \/ ResponseDone
    \/ SocketClose \/ SocketError \/ Close

SpecShutdown == Init /\ [][NextShutdown]_vars

\* the last frame before the caller and the server go quiet: a sendAudio made
\* while the socket is open, no speech is flagged and no response is in
\* progress; if the frame is accepted, only the commit timer runs afterwards
LastFrame ==
    \E audioData \in Frames :
        /\ Ready(svc) /\ socketOpen(svc)
        /\ ~svc.speechActive /\ ~svc.responseInProgress
        /\ svc.metrics.audioChunksAccepted + svc.metrics.audioChunksSkipped < MaxFrames
        /\ Observed("sendAudio", sendAudio(Begin(svc), audioData), audioData)
        /\ idle' = Accepted(sendAudio(Begin(svc), audioData))

\* before the quiet: the connection is set up, frames and VAD events arrive,
\* timers fire and responses complete
NextIdle ==
    \/ ~idle /\ (DoInit \/ SocketOpen \/ InitTimeout)
    \/ ~idle /\ (SendAudio \/ ResponseDone)
    \/ ~idle /\ (SpeechStarted \/ SpeechStopped)
    \/ ~idle /\ LastFrame
    \/ CommitTimerFires

\* once quiet, setTimeout runs the callback of a timer that is not cancelled
SpecIdle == Init /\ [][NextIdle]_vars /\ WF_vars(idle /\ CommitTimerFires)

(***************************************************************************)
(* The text side: the messages of one response, and publishTextUpdate      *)
(* called directly.                                                        *)
(***************************************************************************)
ResponseCreated ==
    /\ Inbound
    /\ Observe("response.created", handle_response_created(Begin(svc)), <<>>)

TextDelta ==
    /\ Inbound
    /\ \E delta \in Deltas :
          /\ Len(svc.textBuffer) + Len(delta) <= MaxText
          /\ Observe("response.text.delta",
                     handle_response_text_delta(Begin(svc), delta), delta)

AudioTranscriptDelta ==
    /\ Inbound
    /\ \E delta \in Deltas :
          /\ Len(svc.textBuffer) + Len(delta) <= MaxText
          /\ Observe("response.audio_transcript.delta",
                     handle_response_audio_transcript_delta(Begin(svc), delta), delta)

AudioTranscriptDone ==
    /\ Inbound
    /\ \E transcript \in Transcripts :
          Observe("response.audio_transcript.done",
                  handle_response_audio_transcript_done(Begin(svc), transcript), transcript)

ContentPartDone ==
    /\ Inbound
    /\ \E transcript \in Transcripts :
          Observe("response.content_part.done",
                  handle_response_content_part_done(Begin(svc), transcript), transcript)

PublishForced ==
    /\ svc.socket # "null"
    /\ Observe("publishTextUpdate(true)", publishTextUpdate(Begin(svc), TRUE), <<>>)

PublishUnforced ==
    /\ svc.socket # "null"
    /\ Observe("publishTextUpdate(false)", publishTextUpdate(Begin(svc), FALSE), <<>>)

NextText ==
    \/ DoInit \/ SocketOpen \/ InitTimeout
    \/ ResponseCreated \/ TextDelta \/ AudioTranscriptDelta
    \/ AudioTranscriptDone \/ ContentPartDone \/ ResponseDone

SpecText == Init /\ [][NextText]_vars

\* the same messages with payloads that do not parse or have an unknown
\* type among them, and close()
Malformed == { [parses |-> FALSE, type |-> ""],
               [parses |-> TRUE, type |-> "rate_limits.updated"] }

MalformedMessage ==
    /\ Inbound
    /\ \E data \in Malformed :
          Observe("malformed", onSocketMessage(Begin(svc), data), <<>>)

NextInbound == NextText \/ MalformedMessage \/ Close

SpecInbound == Init /\ [][NextInbound]_vars

NextPublish == NextText \/ PublishForced \/ PublishUnforced

SpecPublish == Init /\ [][NextPublish]_vars

(***************************************************************************)
(* The router in front of the service (index.js, audioRouter.js).          *)
(***************************************************************************)
serviceVars == <<svc, outstanding, turnCommits, awaitingAccepted, loudSubmitted,
                 rejections, replayed, turn, pubRun, idle, owed, ignored>>

\* the 'set-audio-mode' request, with a mode that is not valid among them
SetAudioMode ==
    /\ \E mode \in validModes \cup {"off"} : router' = setAudioMode(router, mode)
    /\ UNCHANGED <<serviceVars, gatedVars>>

\* a Gemini session is opened or closed
GeminiSession ==
    /\ \E current \in BOOLEAN : router' = [router EXCEPT !.geminiSessionRef = current]
    /\ UNCHANGED <<serviceVars, gatedVars>>

\* init() of the service has succeeded: the service is attached and the
\* router takes the two channels over
AttachAzure ==
    /\ Ready(svc)
    /\ ~router.azureServiceRef
    /\ router' = startRouting([router EXCEPT !.azureServiceRef = TRUE])
    /\ UNCHANGED <<serviceVars, gatedVars>>

\* the 'close-azure-session' request
CloseAzureSession ==
    /\ router.azureServiceRef
    /\ ObservedService("close", close(Begin(svc)), <<>>)
    /\ idle' = idle
    /\ router' = stopRouting([router EXCEPT !.azureServiceRef = FALSE])
    /\ UNCHANGED gatedVars

\* a chunk arrives on the channel of its source
AudioChunk(source) ==
    \E audioData \in Frames :
        IF ipcHandle(router, source, TRUE).reply.sentTo = "azure"
        THEN IF Ready(svc)
             THEN /\ svc.metrics.audioChunksAccepted + svc.metrics.audioChunksSkipped
                        < MaxFrames
                  /\ ObservedService("sendAudio", sendAudio(Begin(svc), audioData),
                                     audioData)
                  /\ idle' = idle
                  /\ router' = ipcHandle(router, source, TRUE)
                  /\ UNCHANGED gatedVars
             ELSE /\ ObservedService("sendAudio throws", Begin(svc), audioData)
                  /\ idle' = idle
                  /\ router' = ipcHandle(router, source, FALSE)
                  /\ UNCHANGED gatedVars
        ELSE /\ router' = ipcHandle(router, source, TRUE)
             /\ UNCHANGED <<serviceVars, gatedVars>>

SystemAudioChunk == AudioChunk("system")

MicAudioChunk == AudioChunk("mic")

NextRouter ==
    \/ DoInit \/ SocketOpen \/ InitTimeout \/ SocketClose
    \/ AttachAzure \/ CloseAzureSession \/ SetAudioMode \/ GeminiSession
    \/ SystemAudioChunk \/ MicAudioChunk

SpecRouter == Init /\ [][NextRouter]_vars

(***************************************************************************)
(* The transcript-gated service: its methods, its timer and its socket     *)
(* events.                                                                 *)
(***************************************************************************)
GatedTranscripts == { <<>>, <<" ">>, <<"a">>, <<"a", " ">>, <<"b">> }

ItemIds == { "null", "item_1", "item_2" }

GatedBegin(s) == [s EXCEPT !.out = <<>>, !.calls = <<>>]

GatedStep(type, s1, transcript, itemId, frames) ==
    /\ tsvc' = s1
    /\ tevent' = [type |-> type, transcript |-> transcript, itemId |-> itemId,
                  frames |-> frames]
    /\ UNCHANGED <<serviceVars, router>>

GatedReady == tsvc.isInitialized /\ tsvc.socket # "null"

GatedInbound == tsvc.socket = "OPEN"

GatedDoInit ==
    /\ tsvc.socket \in {"null", "CLOSED"}
    /\ ~tsvc.initPending
    /\ GatedStep("init", gatedInit(GatedBegin(tsvc)), <<>>, "null", tevent.frames)

GatedSocketOpen ==
    /\ tsvc.socket = "CONNECTING"
    /\ GatedStep("open", [GatedBegin(tsvc) EXCEPT !.socket = "OPEN"], <<>>, "null",
                 tevent.frames)

GatedInitTimeout ==
    /\ tsvc.initPending
    /\ tsvc.socket # "null"
    /\ GatedStep("initTimeout", gatedInitTimeout(GatedBegin(tsvc)), <<>>, "null",
                 tevent.frames)

GatedSendAudio ==
    \E audioData \in Frames :
        IF GatedReady
        THEN /\ tevent.frames < MaxFrames
             /\ GatedStep("sendAudio", gatedSendAudio(GatedBegin(tsvc), audioData),
                          <<>>, "null", tevent.frames + 1)
        ELSE GatedStep("sendAudio throws", GatedBegin(tsvc), <<>>, "null",
                       tevent.frames)

GatedSendText ==
    IF GatedReady
    THEN GatedStep("sendText", gatedSendText(GatedBegin(tsvc)), <<>>, "null",
                   tevent.frames)
    ELSE GatedStep("sendText throws", GatedBegin(tsvc), <<>>, "null", tevent.frames)

GatedCommitTimerFires ==
    /\ tsvc.commitTimer
    /\ GatedStep("commitTimer", gatedCommitTimerCallback(GatedBegin(tsvc)), <<>>,
                 "null", tevent.frames)

GatedTranscription ==
    /\ GatedInbound
    /\ \E transcript \in GatedTranscripts, itemId \in ItemIds :
          GatedStep("transcription.completed",
                    gatedTranscriptionCompleted(GatedBegin(tsvc), transcript, itemId),
                    transcript, itemId, tevent.frames)

GatedResponseDone ==
    /\ GatedInbound
    /\ GatedStep("response.done", gatedResponseDone(GatedBegin(tsvc)), <<>>, "null",
                 tevent.frames)

GatedErrorMessage ==
    /\ GatedInbound
    /\ GatedStep("error", gatedError(GatedBegin(tsvc)), <<>>, "null", tevent.frames)

GatedSocketClose ==
    /\ tsvc.socket \in {"CONNECTING", "OPEN"}
    /\ GatedStep("socket close", gatedOnSocketClose(GatedBegin(tsvc)), <<>>, "null",
                 tevent.frames)

GatedClose ==
    /\ tsvc.socket # "null"
    /\ GatedStep("close", gatedClose(GatedBegin(tsvc)), <<>>, "null", tevent.frames)

NextGated ==
    \/ GatedDoInit \/ GatedSocketOpen \/ GatedInitTimeout
    \/ GatedSendAudio \/ GatedSendText \/ GatedCommitTimerFires
    \/ GatedTranscription \/ GatedResponseDone \/ GatedErrorMessage
    \/ GatedSocketClose \/ GatedClose

SpecGated == Init /\ [][NextGated]_vars

(***************************************************************************)
(* The claims.                                                             *)
(***************************************************************************)

\* C1: at most one inference turn is in flight: no response.create is
\* emitted while an earlier one is unanswered by response.done/response.error.
C1_SingleFlight == outstanding <= 1

\* C2: an input_audio_buffer.commit is written to the socket only while the
\* pending-audio flag hasNewAudioSinceLastCommit is true, whichever path
\* (idle timer, grace timer, buffer threshold, deferred replay) attempts it.
C2_CommitGuard ==
    \A i \in 1..Len(svc.out) :
        svc.out[i].type = "input_audio_buffer.commit" => svc.outFlag[i]

C2_Witness == Commits(svc) = 1 /\ svc.responseInProgress /\ turnCommits = 1

\* C3: exactly one commit per VAD turn: no commit is emitted while speech is
\* flagged active, and no second commit follows without a new speech_started.
C3_OneCommitPerTurn ==
    /\ Commits(svc) > 0 => ~svc.speechActive
    /\ turnCommits <= 1

ReplayProceeds(s) ==
    /\ s.pendingCommitRequest # <<>>
    /\ s.hasNewAudioSinceLastCommit
    /\ SumLen(s.audioBuffer) > 0
    /\ socketOpen(s)
    /\ \/ s.pendingCommitRequest[1].force
       \/ ~s.pauseForEmptyCommit /\ SumLen(s.audioBuffer) >= minCommitBytes

C5_SilenceInvariant ==
    (~svc.disableSilenceGate /\ ~loudSubmitted)
        => (Appends(svc) = 0 /\ Commits(svc) = 0 /\ svc.audioBuffer = <<>>)

C5_Witness ==
    /\ ~loudSubmitted
    /\ svc.metrics.audioChunksSkipped = 2
    /\ turnCommits = 0
    /\ ~svc.speechActive

\* C6: after a commit rejection (commit_failed, commit_no_audio,
\* commit_empty) no commit is emitted until sendAudio has accepted a new
\* frame; the acceptance lifts the pause, and the next timer firing that
\* finds the commit eligible emits it.
C6_EmptyCommitBackoff ==
    [][ /\ Commits(svc') > 0 => ~awaitingAccepted'
        /\ (SendAudio /\ Accepted(svc')) => ~svc'.pauseForEmptyCommit
        /\ (/\ CommitTimerFires
            /\ ~awaitingAccepted
            /\ svc.hasNewAudioSinceLastCommit
            /\ ~svc.speechActive
            /\ ~svc.responseInProgress
            /\ SumLen(svc.audioBuffer) >= minCommitBytes
            /\ socketOpen(svc))
           => Commits(svc') = 1 ]_vars

C6_Witness ==
    /\ rejections = 1
    /\ svc.metrics.commitsAttempted = 2
    /\ Commits(svc) = 1
    /\ ~awaitingAccepted

\* C7: a commit attempt made while the socket is not open emits no commit
\* and keeps the buffered audio and the pending-audio flag for a retry.
C7_NoLossWhenUnwritable ==
    [][ (/\ svc'.metrics.commitsAttempted > svc.metrics.commitsAttempted
         /\ ~socketOpen(svc))
        => /\ Commits(svc') = 0
           /\ svc'.hasNewAudioSinceLastCommit
           /\ svc'.audioBuffer # <<>>
           /\ SumLen(svc'.audioBuffer) >= SumLen(svc.audioBuffer) ]_vars

\* C8: whenever a commit is emitted, the append events sent for it carry at
\* least minCommitBytes bytes (a shortfall is padded with zeros).
C8_PaddingCorrectness ==
    Commits(svc) > 0 => AppendedBytes(svc.out) >= minCommitBytes

MessageDelivered(s, text) ==
    \E i \in 1..Len(s.calls) :
        s.calls[i].name = "onMessage" /\ s.calls[i].arg = text

\* C9 as claimed: a response in which a non-empty delta arrived delivers its
\* text exactly once, at response.done and not before.
C9_DeliveredWhenDeltaSeen ==
    [][ (ResponseDone /\ turn.created /\ turn.nonEmpty)
        => (Deliveries(svc') = 1 /\ ~turn.early) ]_vars

\* C9 as amended: the message callback is invoked only at response.done;
\* there it is invoked exactly once, with the whole buffer, when the buffer
\* is non-empty (a transcript-replacing message may have emptied it) and
\* not at all otherwise; without a transcript-replacing message the buffer
\* is the concatenation of the deltas of the turn in arrival order.
C9_PublishedOnce ==
    [][ /\ Deliveries(svc') > 0 => ResponseDone
        /\ ResponseDone
            => IF svc.textBuffer # <<>>
               THEN /\ Deliveries(svc') = 1
                    /\ MessageDelivered(svc', svc.textBuffer)
                    /\ ~turn.replaced => svc.textBuffer = turn.deltas
               ELSE Deliveries(svc') = 0 ]_vars

C9_Witness ==
    /\ Deliveries(svc) = 1
    /\ MessageDelivered(svc, <<"a", "a">>)
    /\ svc.textBuffer = <<>>

\* C10 as claimed: two forced publishes of a non-empty buffer with no buffer
\* change between them invoke the message callback exactly once.
C10_ExactlyOnePerPair ==
    (pubRun.calls = 2 /\ svc.textBuffer # <<>>) => pubRun.emits = 1

TextState(s) ==
    <<s.textBuffer, s.lastPublishedLength, s.lastLoggedLength, s.responseDelivered>>

\* C10 as amended: forced publishes of a non-empty buffer with no buffer
\* change between them invoke the message callback at most once, exactly
\* once unless a buffer of the same length has been delivered since the
\* last reset; every forced publish after the first changes no text state.
C10_PublishIdempotent ==
    [][ (PublishForced /\ svc.textBuffer # <<>>)
        => /\ pubRun'.emits <= 1
           /\ pubRun.calls >= 1
                => (Deliveries(svc') = 0 /\ TextState(svc') = TextState(svc))
           /\ (pubRun.calls = 0
               /\ ~(svc.responseDelivered
                    /\ Len(svc.textBuffer) = svc.lastPublishedLength))
                => Deliveries(svc') = 1 ]_vars

C10_Witness == pubRun.calls = 2 /\ pubRun.emits = 1 /\ svc.textBuffer # <<>>

\* C11 (as claimed): once a non-silent frame has been accepted with no speech
\* flagged, no response in progress and the socket open, and nothing but the
\* commit timer runs afterwards, an input_audio_buffer.commit is eventually
\* emitted, however few bytes were accepted.
IdleCommitted == idle /\ Commits(svc) >= 1

C11_IdleCommitAnySize == idle ~> IdleCommitted

\* C11 (as the code has it): under the same conditions the commit is
\* eventually emitted when at least minCommitBytes are buffered; with fewer,
\* every firing of the timer re-arms it and no commit is emitted.
IdleEnough == idle /\ getBufferedAudioBytes(svc) >= minCommitBytes

IdleShort ==
    /\ idle
    /\ getBufferedAudioBytes(svc) > 0
    /\ getBufferedAudioBytes(svc) < minCommitBytes

C11_IdleCommitLiveness ==
    /\ IdleEnough ~> IdleCommitted
    /\ [](IdleShort => svc.commitTimer # 0 /\ Commits(svc) = 0)

\* two small frames, then the timer committed them
C11_Witness ==
    /\ idle
    /\ Commits(svc) = 1
    /\ AppendedBytes(svc.out) = minCommitBytes
    /\ svc.metrics.audioChunksAccepted = 2
    /\ svc.timers = {}

\* C12: each commit rejection (commit_failed, commit_no_audio, commit_empty)
\* sets pauseForEmptyCommit, clears the pending-audio flag, empties the audio
\* buffer and its byte count, drops the deferred request and writes nothing to
\* the socket in that step.
C12_RejectionHandling ==
    [][ (CommitFailed \/ CommitNoAudio \/ CommitEmpty)
        => /\ svc'.pauseForEmptyCommit
           /\ ~svc'.hasNewAudioSinceLastCommit
           /\ svc'.audioBuffer = <<>>
           /\ svc'.pendingAudioBytes = 0
           /\ svc'.pendingCommitRequest = <<>>
           /\ svc'.out = <<>> ]_vars

\* a rejection arrived while an accepted frame was buffered behind a commit
C12_Witness ==
    /\ rejections = 1
    /\ awaitingAccepted
    /\ svc.pauseForEmptyCommit
    /\ svc.metrics.audioChunksAccepted = 2
    /\ svc.metrics.commitsAttempted = 1
    /\ svc.audioBuffer = <<>>
    /\ svc.out = <<>>

\* C13: every commit rejection increments metrics.emptyCommitWarnings by one:
\* the counter equals the number of rejection events received.
C13_RejectionsCounted == svc.metrics.emptyCommitWarnings = rejections

\* C14: pauseForEmptyCommit goes from true to false only in a sendAudio that
\* accepts a non-silent frame.
C14_PauseClearedByAudioOnly ==
    [][ (svc.pauseForEmptyCommit /\ ~svc'.pauseForEmptyCommit) => Accepted(svc') ]_vars

\* C15: coalescing is last-write-wins: a commit timer that fires while a
\* response is in progress, and so defers its request, leaves its own
\* {force, reason} as the deferred request, overwriting an earlier one.
TimerDefers(s, t) ==
    /\ s.hasNewAudioSinceLastCommit
    /\ ~(s.pauseForEmptyCommit /\ ~t.force)
    /\ ~(s.speechActive /\ ~t.force)
    /\ s.responseInProgress

C15_LastWriteWins ==
    [][ \A t \in svc.timers :
            (svc' = commitTimerCallback(Begin(svc), t) /\ TimerDefers(svc, t))
            => svc'.pendingCommitRequest = <<[force |-> t.force, reason |-> t.reason]>> ]_vars

\* C16: response.error completes a turn as response.done does: a deferred
\* request that is set with new audio pending is cleared and replayed once,
\* its commit and response.create emitted in that step.
C16_ErrorReplaysDeferred ==
    [][ (ResponseError /\ ReplayProceeds(svc))
        => /\ svc'.pendingCommitRequest = <<>>
           /\ Commits(svc') = 1
           /\ Creates(svc') = 1 ]_vars

\* C17: an inbound 'error' with code conversation_already_has_active_response
\* is not surfaced: the caller's onError callback is not invoked for it.
C17_ContentionNotSurfaced ==
    \A i \in 1..Len(svc.calls) :
        ~(/\ svc.calls[i].name = "onError"
          /\ svc.calls[i].arg = "conversation_already_has_active_response")

\* C18: speech_stopped with no new audio since the last commit arms no timer
\* and writes nothing; with new audio pending it writes nothing and leaves
\* exactly one timer armed, the forced "speech_stopped" attempt due after
\* commitGracePeriodMs.
GraceArmed(s) == \E t \in s.timers : t.reason = "speech_stopped"

SpeechStoppedStep ==
    /\ (SpeechStopped /\ ~svc.hasNewAudioSinceLastCommit)
           => /\ svc'.timers = svc.timers
              /\ svc'.commitTimer = svc.commitTimer
              /\ svc'.out = <<>>
    /\ (SpeechStopped /\ svc.hasNewAudioSinceLastCommit)
           => /\ svc'.out = <<>>
              /\ \E h \in 1..2 :
                    /\ svc'.commitTimer = h
                    /\ svc'.timers = {[h |-> h, delay |-> commitGracePeriodMs,
                                       force |-> TRUE, reason |-> "speech_stopped"]}

GraceTimerFires ==
    \E t \in svc.timers :
        t.reason = "speech_stopped" /\ svc' = commitTimerCallback(Begin(svc), t)

C20_OneCommitTimer ==
    /\ Cardinality(svc.timers) <= 1
    /\ \A t \in svc.timers : t.h = svc.commitTimer
    /\ svc.commitTimer # 0 => svc.timers # {}
    /\ Commits(svc) > 0 => svc.timers = {}

\* the grace timer of speech_stopped has replaced the timer sendAudio armed
C20_Witness ==
    /\ Cardinality(svc.timers) = 1
    /\ GraceArmed(svc)
    /\ svc.audioBuffer # <<>>
    /\ turnCommits = -1
    /\ svc.metrics.commitsAttempted = 0

\* C21: a commit attempt that succeeds writes, in one step and in this order,
\* the append event(s) of the buffered audio, input_audio_buffer.commit, the
\* user conversation.item.create and response.create; after it the audio
\* buffer is empty, pendingAudioBytes is 0, the pending-audio flag is false
\* and responseInProgress is true.
CommitIndex == CHOOSE i \in 1..Len(svc.out) : svc.out[i].type = "input_audio_buffer.commit"

C21_CommitSequence ==
    Commits(svc) > 0
    => /\ Commits(svc) = 1
       /\ Len(svc.out) = CommitIndex + 2
       /\ CommitIndex > 1
       /\ \A i \in 1..(CommitIndex - 1) : svc.out[i].type = "input_audio_buffer.append"
       /\ svc.out[CommitIndex + 1].type = "conversation.item.create"
       /\ svc.out[CommitIndex + 2].type = "response.create"
       /\ svc.audioBuffer = <<>>
       /\ svc.pendingAudioBytes = 0
       /\ ~svc.hasNewAudioSinceLastCommit
       /\ svc.responseInProgress

\* a commit of two payloads: a large frame, then a small one
C21_Witness ==
    /\ Commits(svc) = 1
    /\ Appends(svc) = 2
    /\ Len(svc.out) = 5
    /\ svc.responseInProgress

\* C22: frames are sent in arrival order without loss or duplication: the
\* payloads of the append events of a commit, concatenated, are exactly the
\* frames accepted since the previous commit (or rejection), in arrival
\* order; no accepted frame is sent in two commits.
RECURSIVE AppendedFrames(_)
AppendedFrames(q) ==
    IF q = <<>> THEN <<>>
    ELSE (IF Head(q).type = "input_audio_buffer.append" THEN Head(q).audio ELSE <<>>)
         \o AppendedFrames(Tail(q))

C22_FramesInOrder == Commits(svc) > 0 => AppendedFrames(svc.out) = owed

\* a commit of a small frame followed by a large one, in one payload
C22_Witness ==
    /\ Commits(svc) = 1
    /\ Len(owed) = 2
    /\ owed[1].len < owed[2].len
    /\ Appends(svc) = 1

\* C23: after close(), and until init() is called again, no commit timer is
\* pending, the audio buffer is empty and nothing is written to the socket,
\* whatever late inbound messages or sendAudio calls follow.
C23_QuietAfterClose ==
    svc.socket = "null"
    => /\ svc.timers = {}
       /\ svc.commitTimer = 0
       /\ svc.audioBuffer = <<>>
       /\ svc.out = <<>>

\* C24: close() called with accepted audio buffered and the socket open
\* writes that audio in an append event before the connection is closed.
C24_FinalFlush ==
    [][ (Close /\ svc.audioBuffer # <<>> /\ socketOpen(svc))
        => Appends(svc') >= 1 ]_vars

\* C25: after the socket's 'close' event, its 'error' event or close(), every
\* piece of session state equals its initial value.
SessionReset(s) ==
    /\ s.audioBuffer = <<>>
    /\ s.pendingAudioBytes = 0
    /\ ~s.hasNewAudioSinceLastCommit
    /\ ~s.pauseForEmptyCommit
    /\ s.pendingCommitRequest = <<>>
    /\ ~s.speechActive
    /\ ~s.responseInProgress
    /\ ~s.isCommitting
    /\ s.textBuffer = <<>>
    /\ s.lastPublishedLength = 0
    /\ s.lastLoggedLength = 0
    /\ ~s.responseDelivered

C25_StateResetOnEnd ==
    [][ (SocketClose \/ SocketError \/ Close) => SessionReset(svc') ]_vars

\* C26: an inbound payload that cannot be parsed, or a message of an unknown
\* type, changes no session state, writes nothing to the socket and invokes
\* no caller callback; what follows is handled as if it had not arrived.
C26_MalformedIgnored ==
    [][ MalformedMessage
        => /\ svc' = Begin(svc)
           /\ turn' = turn
           /\ outstanding' = outstanding ]_vars

\* a malformed message has just arrived in the middle of a response text
C26_Witness ==
    /\ ignored
    /\ svc.textBuffer # <<>>
    /\ turn.created
    /\ svc.out = <<>>
    /\ svc.calls = <<>>

\* C27: as soon as the accepted bytes in the buffer reach the minimum chunk
\* size, sendAudio writes exactly one append event carrying all of them,
\* without waiting for a commit, and the buffer is empty afterwards; below
\* that size it writes none.
C27_ChunkedFlush ==
    [][ Accepted(svc')
        => IF SumLen(svc.audioBuffer) + owed'[Len(owed')].len >= minAudioChunkBytes
           THEN /\ Appends(svc') = 1
                /\ AppendedFrames(svc'.out) = Append(svc.audioBuffer, owed'[Len(owed')])
                /\ svc'.audioBuffer = <<>>
           ELSE Appends(svc') = 0 ]_vars

\* C28: a frame below the RMS threshold that arrives within the warmup window
\* (the first consecutive silent frames of the session) is accepted into the
\* buffer: a session whose only frame so far was silent holds that frame.
C28_WarmupBypass ==
    (/\ svc.metrics.audioChunksAccepted + svc.metrics.audioChunksSkipped = 1
     /\ ~loudSubmitted)
    => /\ svc.metrics.audioChunksSkipped = 0
       /\ Len(svc.audioBuffer) = 1

C30_BookmarkWithinBuffer == svc.lastPublishedLength <= Len(svc.textBuffer)

\* a transcript replacement has just put a one-character text in the buffer
C30_Witness ==
    /\ turn.replaced
    /\ svc.textBuffer = <<"b">>
    /\ svc.lastPublishedLength = 0

(***************************************************************************)
(* C31: while an Azure service is attached, a chunk reaches the service's  *)
(* sendAudio exactly when the audio mode allows its source (system audio:  *)
(* speaker_only or both; microphone: mic_only or both); a chunk of a       *)
(* source that is not allowed is answered with success and a skipped       *)
(* marker and is sent neither to Azure nor to Gemini.                      *)
(***************************************************************************)
ModeAllows(source, mode) ==
    IF source = "system" THEN mode \in {"speaker_only", "both"}
                         ELSE mode \in {"mic_only", "both"}

C31_AudioModeHonoured ==
    (router.reply.source # "none" /\ router.reply.attached)
    => /\ (router.reply.sentTo = "azure")
            <=> ModeAllows(router.reply.source, router.reply.audioMode)
       /\ ~ModeAllows(router.reply.source, router.reply.audioMode)
            => /\ router.reply.success
               /\ router.reply.skipped # ""
               /\ router.reply.sentTo = "none"

\* a microphone chunk has been skipped in speaker_only mode, after a system
\* chunk reached the service
C31_Witness ==
    /\ router.reply.source = "mic"
    /\ router.reply.attached
    /\ router.reply.audioMode = "speaker_only"
    /\ router.reply.skipped = "azure-mic-audio-disabled"
    /\ svc.metrics.audioChunksAccepted >= 1

(***************************************************************************)
(* C32 (as claimed): metrics.commitsAttempted equals the number of         *)
(* input_audio_buffer.commit events emitted: both start at zero and every  *)
(* step adds to the counter exactly the commit events it emitted.          *)
(***************************************************************************)
CommitsCounted == svc'.metrics.commitsAttempted - svc.metrics.commitsAttempted

C32_CountsEmittedCommits == [][CommitsCounted = Commits(svc')]_vars

\* C32 (amended): metrics.commitsAttempted counts the commit attempts that
\* pass the guards: a step adds one for every commit event it emitted, and
\* it adds one without emitting only when the attempt found the socket not
\* open.
C32_CountsAttempts ==
    [][ /\ CommitsCounted \in {0, 1}
        /\ Commits(svc') <= CommitsCounted
        /\ (CommitsCounted = 1 /\ Commits(svc') = 0) => ~socketOpen(svc) ]_vars

\* an attempt has been counted although no commit was ever emitted
C32_Witness ==
    /\ svc.metrics.commitsAttempted = 1
    /\ svc.metrics.responsesRequested = 0
    /\ Commits(svc) = 0
    /\ ~socketOpen(svc)
    /\ svc.audioBuffer = <<>>

(***************************************************************************)
(* C33: a non-forced commit attempt made with fewer than minCommitBytes    *)
(* buffered (from the commit timer, or replayed at response.done) emits no *)
(* event, leaves the audio buffer, the pending-audio flag and the byte     *)
(* count unchanged, does not increment the commit counter and leaves       *)
(* exactly one commit timer armed, for commitTimeoutMs later.              *)
(***************************************************************************)
BelowMinimumAttempt ==
    /\ svc.hasNewAudioSinceLastCommit
    /\ ~svc.pauseForEmptyCommit
    /\ ~svc.isCommitting
    /\ getBufferedAudioBytes(svc) < minCommitBytes
    /\ \/ /\ CommitTimerFires
          /\ ~svc.responseInProgress
          /\ ~svc.speechActive
          /\ \A t \in svc.timers : ~t.force
       \/ /\ ResponseDone
          /\ svc.pendingCommitRequest # <<>>
          /\ ~svc.pendingCommitRequest[1].force
          /\ Len(svc.audioBuffer) > 0

C33_BelowMinimumDeferral ==
    [][ BelowMinimumAttempt
        => /\ svc'.out = <<>>
           /\ svc'.audioBuffer = svc.audioBuffer
           /\ svc'.hasNewAudioSinceLastCommit = svc.hasNewAudioSinceLastCommit
           /\ svc'.pendingAudioBytes = svc.pendingAudioBytes
           /\ svc'.metrics.commitsAttempted = svc.metrics.commitsAttempted
           /\ Cardinality(svc'.timers) = 1
           /\ \A t \in svc'.timers :
                 t.delay = commitTimeoutMs /\ t.h = svc'.commitTimer ]_vars

\* a below-minimum request deferred during a response has been replayed at
\* response.done and has armed the timer
C33_Witness ==
    /\ replayed = ""
    /\ svc.calls # <<>>
    /\ ~svc.responseInProgress
    /\ svc.pendingCommitRequest = <<>>
    /\ svc.hasNewAudioSinceLastCommit
    /\ Len(svc.audioBuffer) = 1
    /\ getBufferedAudioBytes(svc) < minCommitBytes
    /\ \E t \in svc.timers : t.reason = "timer_post_response"

(***************************************************************************)
(* C34: in every state reachable without a transport close event or a      *)
(* close() call, hasNewAudioSinceLastCommit is true exactly when           *)
(* audioBuffer holds at least one frame, and pendingAudioBytes is the sum  *)
(* of the lengths of the frames in audioBuffer.                            *)
(***************************************************************************)
C34_BufferBookkeeping ==
    /\ svc.hasNewAudioSinceLastCommit <=> Len(svc.audioBuffer) > 0
    /\ svc.pendingAudioBytes = SumLen(svc.audioBuffer)

\* a rejection has cleared the buffer, its flag and its byte count together
C34_Witness ==
    /\ svc.metrics.emptyCommitWarnings = 1
    /\ svc.metrics.audioChunksAccepted >= 1
    /\ svc.metrics.commitsAttempted = 0
    /\ ~svc.hasNewAudioSinceLastCommit
    /\ svc.audioBuffer = <<>>
    /\ svc.pendingAudioBytes = 0

(***************************************************************************)
(* C35: isCommitting is false in every state between events, also after a  *)
(* commit attempt that could not send.                                     *)
(***************************************************************************)
C35_BusyFlagNeverLeaks == ~svc.isCommitting

\* a commit attempt has just found the socket closing and sent nothing
C35_Witness ==
    /\ svc.metrics.commitsAttempted >= 1
    /\ svc.metrics.responsesRequested = 0
    /\ svc.socket = "CLOSING"
    /\ ~svc.hasNewAudioSinceLastCommit
    /\ ~svc.isCommitting

(***************************************************************************)
(* C36: a deferred request exists only while a response is in progress:    *)
(* pendingCommitRequest is non-null only if responseInProgress is true.    *)
(***************************************************************************)
C36_DeferredOnlyDuringResponse ==
    svc.pendingCommitRequest # <<>> => svc.responseInProgress

(***************************************************************************)
(* C37 (as claimed): in every state between events in which no response is *)
(* in progress and the session is open, fewer than forceCommitBytes bytes  *)
(* of audio are buffered.                                                  *)
(***************************************************************************)
IdleOpen == ~svc.responseInProgress /\ svc.isInitialized /\ socketOpen(svc)

C37_BacklogBoundedWhenIdle ==
    IdleOpen => getBufferedAudioBytes(svc) < forceCommitBytes

\* C37 (amended): in every state that follows an accepted sendAudio call made
\* while no response was in progress, fewer than forceCommitBytes bytes of
\* audio are buffered.
C37_BacklogBoundedAfterIdleFrame ==
    [][ (SendAudio /\ Accepted(svc') /\ ~svc.responseInProgress)
        => getBufferedAudioBytes(svc') < forceCommitBytes ]_vars

\* a frame that took the buffer to forceCommitBytes has been committed by the
\* sendAudio call that accepted it
C37_Witness ==
    /\ svc.metrics.audioChunksAccepted = 2
    /\ svc.metrics.commitsAttempted = 1
    /\ Commits(svc) = 1
    /\ svc.calls = <<>>
    /\ svc.responseInProgress
    /\ svc.audioBuffer = <<>>

(***************************************************************************)
(* C38: in the transcript-gated variant no input_audio_buffer.commit is    *)
(* emitted while responseInProgress or pendingResponse is true, and a      *)
(* response.create of an audio turn is emitted only on a transcription     *)
(* completed event received while pendingResponse is true, whose trimmed   *)
(* transcript is not empty and is not a duplicate of the last accepted     *)
(* transcript.                                                             *)
(***************************************************************************)
C38_TranscriptGated ==
    [][ /\ CountType(tsvc'.out, "input_audio_buffer.commit") > 0
            => ~tsvc.responseInProgress /\ ~tsvc.pendingResponse
        /\ (CountType(tsvc'.out, "response.create") > 0 /\ tevent'.type # "sendText")
            => /\ tevent'.type = "transcription.completed"
               /\ tsvc.pendingResponse
               /\ trim(tevent'.transcript) # <<>>
               /\ ~isDuplicateTranscript(tsvc, trim(tevent'.transcript),
                                         tevent'.itemId) ]_vars

\* a transcript with trailing white space has been accepted after a commit
\* and has requested the response
C38_Witness ==
    /\ tevent.type = "transcription.completed"
    /\ tevent.transcript = <<"a", " ">>
    /\ tevent.frames = 2
    /\ CountType(tsvc.out, "response.create") = 1
    /\ tsvc.responseInProgress
    /\ ~tsvc.pendingResponse
    /\ tsvc.lastTranscript = <<"a">>
    /\ tsvc.lastTranscriptId = "item_2"

(***************************************************************************)
(* C39: in the transcript-gated variant, a transcription completed event   *)
(* received while pendingResponse is true, whatever its transcript (the    *)
(* empty one included), leaves pendingResponse false.                      *)
(***************************************************************************)
C39_TranscriptEndsWait ==
    [][ (GatedTranscription /\ tsvc.pendingResponse) => ~tsvc'.pendingResponse ]_vars

====
